---- MODULE Spec2Model ----
(***************************************************************************)
(* A model of the comment-analysis worker of topicktube:                   *)
(*   - worker/process.py    process_video, the cache gate, the status      *)
(*                          state machine of the item and its run record   *)
(*   - backend/app/tasks.py set_job_status, set_video_status,              *)
(*                          store_clustered_results                        *)
(*   - backend/app/main.py  analyze (the request handler that creates runs)*)
(*   - worker/clustering.py preprocess_texts, choose_k_by_silhouette,      *)
(*                          select_representatives                         *)
(*   - worker/summarize.py  get_client, summarize_cluster,                 *)
(*                          summarize_video_content                        *)
(*                                                                         *)
(* Texts are sequences of characters (one-character strings), so that      *)
(* trimming, length, case folding, the noise patterns and the sort of the  *)
(* comment ids are computed, not assumed.                                  *)
(*                                                                         *)
(* Six specifications:                                                     *)
(*   Spec   analyze requests and one worker running process_video          *)
(*   SpecA  the same, with the two commits of analyze as separate steps    *)
(*   SpecK  one call of choose_k_by_silhouette, for every argument         *)
(*   SpecR  one call of select_representatives, for every argument         *)
(*   SpecP  one call of preprocess_texts, for every argument               *)
(*   SpecC  the rescaling of the projection in cluster_comments            *)
(***************************************************************************)
EXTENDS Integers, Sequences, FiniteSets, TLC

(***************************************************************************)
(* Characters and strings                                                  *)
(***************************************************************************)

\* Python's None.
None == "None"

UpperChars ==
  <<"A","B","C","D","E","F","G","H","I","J","K","L","M",
    "N","O","P","Q","R","S","T","U","V","W","X","Y","Z">>

LowerChars ==
  <<"a","b","c","d","e","f","g","h","i","j","k","l","m",
    "n","o","p","q","r","s","t","u","v","w","x","y","z">>

DigitChars == <<"0","1","2","3","4","5","6","7","8","9">>

\* The three CJK characters of the noise list are written by their code points.
Kusa == "U+8349"
Warai == "U+7B11"
Wa == "U+30EF"
Ro == "U+30ED"
Ta == "U+30BF"

\* The characters of the model in code-point order (the order sorted() uses).
CodeOrder ==
  <<"\n", " ", "!", ",", ".", "/">> \o DigitChars \o <<":", "?">> \o UpperChars
    \o <<"_">> \o LowerChars \o <<Ta, Ro, Wa, Warai, Kusa>>

Range(s) == {s[i] : i \in 1..Len(s)}

Ord(c) == CHOOSE i \in 1..Len(CodeOrder) : CodeOrder[i] = c

\* str.isspace for the characters of the model.
IsSpace(c) == c \in {" ", "\n"}

\* The regular expression class \w (letters, digits, underscore; CJK included).
IsWordChar(c) ==
  c \in Range(UpperChars) \cup Range(LowerChars) \cup Range(DigitChars)
        \cup {"_", Kusa, Warai, Wa, Ro, Ta}

LowerChar(c) ==
  IF c \in Range(UpperChars)
    THEN LowerChars[CHOOSE i \in 1..26 : UpperChars[i] = c]
    ELSE c

\* str.lower
Lower(s) == [i \in 1..Len(s) |-> LowerChar(s[i])]

RECURSIVE LStrip(_)
LStrip(s) == IF s # <<>> /\ IsSpace(Head(s)) THEN LStrip(Tail(s)) ELSE s

RECURSIVE RStrip(_)
RStrip(s) ==
  IF s # <<>> /\ IsSpace(s[Len(s)]) THEN RStrip(SubSeq(s, 1, Len(s) - 1)) ELSE s

\* str.strip
Strip(s) == RStrip(LStrip(s))

\* s[:n]
Take(s, n) == SubSeq(s, 1, IF Len(s) < n THEN Len(s) ELSE n)

StartsWith(s, p) == Len(s) >= Len(p) /\ SubSeq(s, 1, Len(p)) = p

\* Lexicographic order of strings by code point: s < t.
RECURSIVE StrLess(_, _)
StrLess(s, t) ==
  IF t = <<>> THEN FALSE
  ELSE IF s = <<>> THEN TRUE
  ELSE IF Head(s) # Head(t) THEN Ord(Head(s)) < Ord(Head(t))
  ELSE StrLess(Tail(s), Tail(t))

(***************************************************************************)
(* worker/clustering.py: the noise patterns and preprocess_texts           *)
(***************************************************************************)

MIN_TEXT_LENGTH == 8

HttpPrefix == <<"h","t","t","p",":","/","/">>

HttpsPrefix == <<"h","t","t","p","s",":","/","/">>

\* The fixed alternatives of the third noise pattern.
NoiseWords ==
  {<<"f","i","r","s","t">>, <<"n","i","c","e">>, <<"l","o","l">>,
   <<"l","m","a","o">>, <<"w","o","w">>, <<"c","o","o","l">>,
   <<"g","r","e","a","t">>, <<"a","w","e","s","o","m","e">>,
   <<"g","o","o","d">>, <<"b","a","d">>, <<"y","e","s">>, <<"n","o">>,
   <<"o","k">>, <<"o","k","a","y">>, <<"o","m","g">>, <<"w","t","f">>,
   <<Wa, Ro, Ta>>}

\* The anchor $: the end of the string, or just before a final newline.
AtEnd(rest) == rest = <<>> \/ rest = <<"\n">>

AllIn(s, chars) == \A i \in 1..Len(s) : s[i] \in chars

\* One alternative of ^(first|...|w+|kusa+|warota|www+|warai+): the token p.
IsNoiseToken(p) ==
  \/ p \in NoiseWords
  \/ Len(p) >= 1 /\ AllIn(p, {"w"})
  \/ Len(p) >= 1 /\ AllIn(p, {Kusa})
  \/ Len(p) >= 3 /\ AllIn(p, {"w"})
  \/ Len(p) >= 1 /\ AllIn(p, {Warai})

\* NOISE_REGEX.match(text): the three patterns, each anchored at the start
\* by match(); only the second and the third are anchored at the end.
NoiseMatch(text) ==
  LET low == Lower(text)
  IN \/ StartsWith(low, HttpPrefix)
     \/ StartsWith(low, HttpsPrefix)
     \/ \E n \in 1..Len(text) :
          /\ \A i \in 1..n : ~IsWordChar(text[i]) /\ ~IsSpace(text[i])
          /\ AtEnd(SubSeq(text, n + 1, Len(text)))
     \/ \E n \in 1..Len(text) :
          /\ IsNoiseToken(SubSeq(low, 1, n))
          /\ AtEnd(SubSeq(text, n + 1, Len(text)))

\* The loop of preprocess_texts from the i-th text on (i counts from 1; the
\* indices it returns count from 0, as enumerate does).
RECURSIVE PreprocessKeepDuplicates(_, _, _, _, _)
\* preprocess_texts without seen.add(normalized).
PreprocessKeepDuplicates(texts, i, clean, idx, seen) ==
  IF i > Len(texts) THEN <<clean, idx>>
  ELSE LET text == Strip(texts[i])
       IN IF Len(text) < MIN_TEXT_LENGTH \/ NoiseMatch(text)
          THEN PreprocessKeepDuplicates(texts, i + 1, clean, idx, seen)
          ELSE PreprocessKeepDuplicates(texts, i + 1, Append(clean, text),
                                        Append(idx, i - 1), seen)

RECURSIVE PreprocessFrom(_, _, _, _, _)
PreprocessFrom(texts, i, clean, idx, seen) ==
  IF i > Len(texts) THEN <<clean, idx>>
  ELSE
    LET text == Strip(texts[i])
        normalized == Lower(text)
    IN IF Len(text) < MIN_TEXT_LENGTH
         THEN PreprocessFrom(texts, i + 1, clean, idx, seen)
       ELSE IF NoiseMatch(text)
         THEN PreprocessFrom(texts, i + 1, clean, idx, seen)
       ELSE IF normalized \in seen
         THEN PreprocessFrom(texts, i + 1, clean, idx, seen)
       ELSE PreprocessFrom(texts, i + 1, Append(clean, text),
                           Append(idx, i - 1), seen \cup {normalized})

\* preprocess_texts(texts) = <<clean_texts, original_indices>>
preprocess_texts(texts) == PreprocessFrom(texts, 1, <<>>, <<>>, {})

(***************************************************************************)
(* worker/process.py: calc_comments_hash                                   *)
(***************************************************************************)

RECURSIVE Insert(_, _)
Insert(x, sorted) ==
  IF sorted = <<>> THEN <<x>>
  ELSE IF StrLess(x, Head(sorted)) THEN <<x>> \o sorted
  ELSE <<Head(sorted)>> \o Insert(x, Tail(sorted))

\* sorted(comment_ids)
RECURSIVE SortedIds(_)
SortedIds(ids) == IF ids = <<>> THEN <<>> ELSE Insert(Head(ids), SortedIds(Tail(ids)))

\* "\n".join(ids)
RECURSIVE JoinLines(_)
JoinLines(ids) ==
  IF ids = <<>> THEN <<>>
  ELSE IF Len(ids) = 1 THEN Head(ids)
  ELSE Head(ids) \o <<"\n">> \o JoinLines(Tail(ids))

\* A variant that hashes the ids in the order fetched.
CalcHashUnsorted(comment_ids) == JoinLines(comment_ids)

\* calc_comments_hash: SHA-256 is taken to be collision-free, so the digest
\* is represented by the string it is computed from.
calc_comments_hash(comment_ids) == JoinLines(SortedIds(comment_ids))

ID_PREFIX_LEN == 50

\* comment_ids of process_video: the comment source gives no "comment_id", so
\* the id of a comment is the first 50 characters of its text.
CommentIds(comments_data) ==
  [i \in 1..Len(comments_data) |-> Take(comments_data[i], ID_PREFIX_LEN)]

(***************************************************************************)
(* The comment source: the texts and the feeds it may return               *)
(***************************************************************************)

TextGreat == <<"G","r","e","a","t"," ","v","i","d","e","o","!","!">>

TextGreatLower == <<"g","r","e","a","t"," ","v","i","d","e","o","!","!">>

TextOk == <<"o","k">>

TextUrl == <<"h","t","t","p",":","/","/","a",".","i","o"," ","s","e","e">>

TextDisagree == <<"I"," ","d","i","s","a","g","r","e","e">>

TextWell == <<" ","W","e","l","l"," ","s","a","i","d","!"," ">>

\* What fetch_comments may return for the item, from run to run.
Feeds ==
  { <<TextGreat, TextDisagree>>,
    <<TextGreat, TextGreatLower, TextOk, TextUrl>>,
    <<TextGreat, TextDisagree, TextWell>>,
    <<TextWell, TextGreat, TextDisagree>> }

(***************************************************************************)
(* State                                                                   *)
(***************************************************************************)

VARIABLES
  video,      \* the item's row of table videos
  clusters,   \* the item's rows of table clusters, in insertion order
  comments,   \* the item's rows of table comments (their texts)
  jobs,       \* table jobs: job id -> run record
  queue,      \* the job queue: job ids waiting for the worker
  pc,         \* where the worker is in process_video
  cur,        \* the id of the job the worker executes (0: none yet)
  loc,        \* the local variables of the executing process_video
  client,     \* summarize._client, the process-wide service client
  apiKey,     \* whether OPENAI_API_KEY is set in the worker's environment
  steps,      \* the steps the current run has executed
  log,        \* job id -> how its run ended, what it fetched and left behind
  sel,        \* a call of choose_k_by_silhouette: its arguments and locals
  rs,         \* a call of select_representatives: its arguments and locals
  pp,         \* a call of preprocess_texts: its argument and result
  cc,         \* a call of cluster_comments: the projection and its rescaling
  api         \* the job id an analyze request has enqueued and not yet
              \* recorded (0: no request is between the two)

pipeVars ==
  <<video, clusters, comments, jobs, queue, pc, cur, loc, client, apiKey,
    steps, log>>

\* The calls of the pure functions are checked on their own.
funVars == <<sel, rs, pp, cc, api>>

vars == <<pipeVars, funVars>>

\* No call of the function in progress.
NoCall == [pc |-> "idle"]

\* The number of analyze requests that create a job.
MaxJobs == 2

JobIds == 1..MaxJobs

\* video.hash_version of an item that was never hashed.
NoHash == <<None>>

\* Python truthiness of an optional string.
Truthy(s) == s # None /\ s # ""

Stances == {"support", "skeptic", "neutral"}

(***************************************************************************)
(* backend/app/tasks.py                                                    *)
(***************************************************************************)

\* A variant that keeps the previous error message.
SetJobStatusKeepMessage(js, job_id, status, error_message) ==
  IF job_id \in DOMAIN js
    THEN [js EXCEPT ![job_id].status = status]
    ELSE js

\* set_job_status: writes only when the run record exists.
set_job_status(js, job_id, status, error_message) ==
  IF job_id \in DOMAIN js
    THEN [js EXCEPT ![job_id].status = status,
                    ![job_id].error_message = error_message]
    ELSE js

\* set_video_status
set_video_status(v, status) ==
  IF v.exists THEN [v EXCEPT !.status = status] ELSE v

\* The positional parameters store_clustered_results accepts (db, video_id,
\* job_id, texts, labels, coords_2d, rep_indices_map, cluster_labels,
\* cluster_summaries) ...
StoreMaxPositional == 9

\* ... and the positional arguments process_video passes (the same, then
\* cluster_stances).
StoreCallArgs == 10

StoreTypeError ==
  "store_clustered_results() takes from 8 to 9 positional arguments but 10 were given"

\* The rows store_clustered_results builds: label and summary per cluster;
\* Cluster(...) is given no stance.
NewClusterRows(out, job_id) ==
  [i \in 1..Len(out) |->
     [label |-> out[i][1], summary |-> out[i][2], stance |-> None, run |-> job_id]]

(***************************************************************************)
(* worker/process.py: has_complete_analysis                                *)
(***************************************************************************)

\* A variant that asks only for some cluster rows.
HasAnyClusters(cl, v) == cl # <<>>

has_complete_analysis(cl, v) ==
  /\ cl # <<>>
  /\ \A i \in 1..Len(cl) :
       Truthy(cl[i].label) /\ Truthy(cl[i].summary) /\ Truthy(cl[i].stance)
  /\ v.exists /\ Truthy(v.overall_summary) /\ Truthy(v.issue_outline)
  /\ ~(~Truthy(v.video_summary) /\ v.video_summary_status = "pending")

(***************************************************************************)
(* worker/summarize.py                                                     *)
(***************************************************************************)

NoKeyError == "OPENAI_API_KEY environment variable is not set"

\* get_client raises when no client was built yet and the key is not set.
GetClientRaises == client = None /\ ~apiKey

FallbackCluster ==
  <<"ronten (generation error)", "summary generation failed", "neutral">>

\* What summarize_cluster returns once it has the client: the parsed reply
\* (a reply without text gives the label "ronten" and an empty summary), or
\* the fixed fallback when the request raises.
ClusterReplies ==
  {<<"label", "summary", "support">>, <<"ronten", "", "neutral">>, FallbackCluster}

(***************************************************************************)
(* Initial state                                                           *)
(***************************************************************************)

\* The item's row as analyze creates it (the defaults of models.Video).
NewVideo ==
  [exists |-> TRUE, status |-> "queued", title |-> None, hash_version |-> NoHash,
   overall_summary |-> None, issue_outline |-> None, video_summary |-> None,
   video_summary_status |-> "pending"]

\* No row for the item yet.
NoVideo == [NewVideo EXCEPT !.exists = FALSE]

FeedOfStoredAnalysis == <<TextGreat, TextDisagree, TextWell>>

\* The store is persistent (tables are created only when missing): it may
\* already hold an analysis of the item when the worker starts, written
\* before or after the columns stance and video_summary were filled.
StoredVideos ==
  {[NewVideo EXCEPT !.status = "done", !.title = "title",
                    !.hash_version = h,
                    !.overall_summary = "overall", !.issue_outline = "outline",
                    !.video_summary = vs[1], !.video_summary_status = vs[2]] :
     h \in {calc_comments_hash(CommentIds(FeedOfStoredAnalysis))},
     vs \in {<<None, "pending">>, <<"video summary", "ok">>}}

StoredClusters ==
  {[i \in 1..2 |-> [label |-> "old label", summary |-> "old summary",
                    stance |-> st, run |-> 0]] : st \in {None, "neutral"}}

\* The log entry of a job whose run has not ended.
NoRun == [outcome |-> "none", fetched |-> FALSE, ids |-> <<>>, complete |-> FALSE]

LocInit ==
  [description |-> "", video_summary |-> None,
   video_summary_status |-> "unavailable", comments_data |-> <<>>,
   new_hash |-> NoHash, clean_texts |-> <<>>, reps |-> <<>>, out |-> <<>>,
   exc |-> None, site |-> None]

PipeInit ==
  /\ \/ video = NoVideo /\ clusters = <<>>
     \/ video \in StoredVideos /\ clusters \in StoredClusters
  /\ comments = <<>>
  /\ jobs = <<>>
  /\ queue = <<>>
  /\ pc = "idle"
  /\ cur = 0
  /\ loc = LocInit
  /\ client = None
  /\ apiKey \in BOOLEAN
  /\ steps = {}
  /\ log = [j \in JobIds |-> NoRun]

(***************************************************************************)
(* backend/app/main.py: analyze                                            *)
(***************************************************************************)

\* POST /analyze for the item: answers with the latest done job, or queues
\* the item, enqueues a job and inserts its run record.
Analyze ==
  LET reuse ==
        /\ video.exists /\ video.status = "done"
        /\ ~(~Truthy(video.video_summary) /\ video.video_summary_status = "pending")
        /\ \E j \in DOMAIN jobs : jobs[j].status = "done"
      id == Len(jobs) + 1
  IN /\ Len(jobs) < MaxJobs
     /\ IF reuse
          THEN UNCHANGED <<video, queue, jobs>>
          ELSE /\ video' = IF video.exists
                             THEN [video EXCEPT !.status = "queued"]
                             ELSE NewVideo
               /\ queue' = Append(queue, id)
               /\ jobs' = Append(jobs, [status |-> "queued", error_message |-> None])
     /\ UNCHANGED <<clusters, comments, pc, cur, loc, client, apiKey, steps, log>>
     /\ UNCHANGED funVars

(***************************************************************************)
(* worker/process.py: process_video, step by step                          *)
(***************************************************************************)

Min(a, b) == IF a < b THEN a ELSE b

\* The run is over: record how it ended, the comment ids it fetched (if it
\* came that far) and whether it leaves a complete analysis.  The locals of
\* process_video end with it.
EndRun(outcome) ==
  /\ log' = [log EXCEPT ![cur] =
               [outcome |-> outcome,
                fetched |-> "cache_check" \in steps',
                ids |-> CommentIds(loc.comments_data),
                complete |-> has_complete_analysis(clusters', video')]]
  /\ loc' = LocInit

\* A step raises: control passes to the except clause, which reads none of
\* the locals of the try body but the exception.
Raise(site, message) ==
  /\ loc' = [LocInit EXCEPT !.comments_data = loc.comments_data,
                            !.exc = message, !.site = site]
  /\ pc' = "except"

\* The queue layer hands the next job to the idle worker.
Dequeue ==
  /\ pc \in {"idle", "returned", "raised"}
  /\ queue # <<>>
  /\ cur' = Head(queue)
  /\ queue' = Tail(queue)
  /\ pc' = "begin"
  /\ loc' = LocInit
  /\ steps' = {}
  /\ UNCHANGED <<video, clusters, comments, jobs, client, apiKey, log>>
  /\ UNCHANGED funVars

\* Lines 67-73: both statuses become processing.
Begin ==
  /\ pc = "begin"
  /\ jobs' = set_job_status(jobs, cur, "processing", None)
  /\ video' = set_video_status(video, "processing")
  /\ pc' = "video_info"
  /\ steps' = steps \cup {"begin"}
  /\ UNCHANGED <<clusters, comments, queue, cur, loc, client, apiKey, log>>
  /\ UNCHANGED funVars

\* Lines 75-80: fetch_video_info returns the title and a description (which
\* may be empty), or raises ValueError.
FetchVideoInfo ==
  /\ pc = "video_info"
  /\ steps' = steps \cup {"video_info"}
  /\ \/ Raise("fetch_video_info", "YouTube API error")
     \/ \E d \in {"", "description"} :
          /\ loc' = [loc EXCEPT !.description = d]
          /\ pc' = "video_summary"
  /\ UNCHANGED <<video, clusters, comments, jobs, queue, cur, client, apiKey, log>>
  /\ UNCHANGED funVars

\* Lines 82-95: the transcript (possibly missing) and summarize_video_content,
\* which returns None without a client when it has neither transcript nor
\* description, raises when get_client does, and otherwise returns the reply,
\* or None when the request fails.  The description is not read afterwards.
VideoSummary ==
  /\ pc = "video_summary"
  /\ steps' = steps \cup {"video_summary"}
  /\ \E transcript \in {"", "transcript"} :
       IF transcript = "" /\ loc.description = ""
         THEN /\ loc' = [LocInit EXCEPT !.video_summary = None,
                                        !.video_summary_status = "failed"]
              /\ pc' = "fetch_comments"
              /\ UNCHANGED client
         ELSE IF GetClientRaises
           THEN Raise("summarize_video_content", NoKeyError) /\ UNCHANGED client
           ELSE /\ client' = "client"
                /\ \E r \in {"video summary", None} :
                     loc' = [LocInit EXCEPT !.video_summary = r,
                                            !.video_summary_status =
                                               IF Truthy(r) THEN "ok" ELSE "failed"]
                /\ pc' = "fetch_comments"
  /\ UNCHANGED <<video, clusters, comments, jobs, queue, cur, apiKey, log>>
  /\ UNCHANGED funVars

\* Line 97: fetch_comments returns the comments or raises ValueError.
FetchComments ==
  /\ pc = "fetch_comments"
  /\ steps' = steps \cup {"fetch_comments"}
  /\ \/ Raise("fetch_comments", "API quota exceeded or comments disabled")
     \/ \E f \in Feeds :
          /\ loc' = [loc EXCEPT !.comments_data = f]
          /\ pc' = "cache_check"
  /\ UNCHANGED <<video, clusters, comments, jobs, queue, cur, client, apiKey, log>>
  /\ UNCHANGED funVars

\* Lines 106-111: the row as the session sees it at the cache check.
SessionVideo ==
  IF video.exists
    THEN [video EXCEPT !.title = "title",
                       !.video_summary =
                          IF Truthy(loc.video_summary) THEN loc.video_summary ELSE @,
                       !.video_summary_status = loc.video_summary_status]
    ELSE video

\* A variant of the gate that compares the hashes only.
CacheHitOnHashOnly(new_hash) ==
  SessionVideo.exists /\ SessionVideo.hash_version = new_hash

\* Line 115: the cache gate.
CacheHit(new_hash) ==
  /\ SessionVideo.exists
  /\ SessionVideo.hash_version = new_hash
  /\ has_complete_analysis(clusters, SessionVideo)

\* Lines 101-120: the hash of the fetched ids and the cache check; on a hit
\* both statuses become done and the run returns.
CacheCheck ==
  /\ pc = "cache_check"
  /\ steps' = steps \cup {"cache_check"}
  /\ LET new_hash == calc_comments_hash(CommentIds(loc.comments_data))
     IN IF CacheHit(new_hash)
          THEN /\ jobs' = set_job_status(jobs, cur, "done", None)
               /\ video' = set_video_status(SessionVideo, "done")
               /\ pc' = "returned"
               /\ UNCHANGED clusters
               /\ EndRun("hit")
          ELSE /\ loc' = [loc EXCEPT !.new_hash = new_hash]
               /\ video' = SessionVideo
               /\ pc' = "update_hash"
               /\ UNCHANGED <<jobs, clusters, log>>
  /\ UNCHANGED <<comments, queue, cur, client, apiKey>>
  /\ UNCHANGED funVars

\* A variant that leaves the stored hash as it was.
UpdateHashSkipped ==
  /\ pc = "update_hash"
  /\ steps' = steps \cup {"update_hash"}
  /\ pc' = "save_comments"
  /\ UNCHANGED <<video, clusters, comments, jobs, queue, cur, loc, client, apiKey, log>>
  /\ UNCHANGED funVars

\* Lines 122-125: the stored hash becomes the new one.
UpdateHash ==
  /\ pc = "update_hash"
  /\ steps' = steps \cup {"update_hash"}
  /\ video' = IF video.exists THEN [video EXCEPT !.hash_version = loc.new_hash] ELSE video
  /\ pc' = "save_comments"
  /\ UNCHANGED <<clusters, comments, jobs, queue, cur, loc, client, apiKey, log>>
  /\ UNCHANGED funVars

\* Lines 127-129 and save_comments_to_db: the item's comment rows are replaced.
SaveComments ==
  /\ pc = "save_comments"
  /\ steps' = steps \cup {"save_comments"}
  /\ comments' = loc.comments_data
  /\ pc' = "count_check"
  /\ UNCHANGED <<video, clusters, jobs, queue, cur, loc, client, apiKey, log>>
  /\ UNCHANGED funVars

\* The least number of comments, raw or clean, that is analysed.
MIN_COMMENTS == 3

\* Lines 131-135: fewer than 3 comments end the run as done, with a note.
CountCheck ==
  /\ pc = "count_check"
  /\ steps' = steps \cup {"count_check"}
  /\ IF Len(loc.comments_data) < MIN_COMMENTS
       THEN /\ jobs' = set_job_status(jobs, cur, "done", "Not enough comments")
            /\ video' = set_video_status(video, "done")
            /\ pc' = "returned"
            /\ UNCHANGED clusters
            /\ EndRun("short_raw")
       ELSE /\ pc' = "preprocess"
            /\ UNCHANGED <<jobs, video, clusters, loc, log>>
  /\ UNCHANGED <<comments, queue, cur, client, apiKey>>
  /\ UNCHANGED funVars

\* Lines 136-144: preprocessing; fewer than 3 clean comments end the run as
\* done, with another note.
Preprocess ==
  /\ pc = "preprocess"
  /\ steps' = steps \cup {"preprocess"}
  /\ LET clean_texts == preprocess_texts(loc.comments_data)[1]
     IN IF Len(clean_texts) < MIN_COMMENTS
          THEN /\ jobs' = set_job_status(jobs, cur, "done", "Not enough valid comments")
               /\ video' = set_video_status(video, "done")
               /\ pc' = "returned"
               /\ UNCHANGED clusters
               /\ EndRun("short_clean")
          ELSE /\ loc' = [loc EXCEPT !.clean_texts = clean_texts]
               /\ pc' = "embed"
               /\ UNCHANGED <<jobs, video, clusters, log>>
  /\ UNCHANGED <<comments, queue, cur, client, apiKey>>
  /\ UNCHANGED funVars

\* Lines 146-148: embed_comments returns the embeddings or raises.
Embed ==
  /\ pc = "embed"
  /\ steps' = steps \cup {"embed"}
  /\ \/ Raise("embed_comments", "embedding failed")
     \/ pc' = "cluster" /\ UNCHANGED loc
  /\ UNCHANGED <<video, clusters, comments, jobs, queue, cur, client, apiKey, log>>
  /\ UNCHANGED funVars

\* The default k_max of choose_k_by_silhouette.
K_MAX_DEFAULT == 8

\* Lines 150-154: cluster_comments and select_representatives, or an
\* exception of the partitioning.  k is what choose_k_by_silhouette returns
\* for n >= 3 points with its defaults; reps[c] tells whether cluster c has
\* members, and so representatives (top_k = 5).
Cluster ==
  /\ pc = "cluster"
  /\ steps' = steps \cup {"cluster"}
  /\ \/ Raise("cluster_comments", "clustering failed")
     \/ \E k \in 2..Min(K_MAX_DEFAULT, Len(loc.clean_texts) - 1) :
          \E reps \in [1..k -> BOOLEAN] :
            /\ \E c \in 1..k : reps[c]
            /\ loc' = [loc EXCEPT !.reps = reps, !.out = <<>>]
            /\ pc' = "summarize"
  /\ UNCHANGED <<video, clusters, comments, jobs, queue, cur, client, apiKey, log>>
  /\ UNCHANGED funVars

GroupLabels ==
  <<"Group 1", "Group 2", "Group 3", "Group 4", "Group 5", "Group 6",
    "Group 7", "Group 8">>

\* Lines 162-174, one turn of the loop: a cluster without representatives
\* gets the fixed texts; for the others summarize_cluster is called, which
\* obtains the client before its try block.
SummarizeCluster ==
  /\ pc = "summarize"
  /\ Len(loc.out) < Len(loc.reps)
  /\ steps' = steps \cup {"summarize"}
  /\ LET i == Len(loc.out) + 1
     IN IF ~loc.reps[i]
          THEN /\ loc' = [loc EXCEPT !.out =
                            Append(@, <<GroupLabels[i], "No content", "neutral">>)]
               /\ UNCHANGED <<pc, client>>
          ELSE IF GetClientRaises
            THEN Raise("summarize_cluster", NoKeyError) /\ UNCHANGED client
            ELSE /\ client' = "client"
                 /\ \E r \in ClusterReplies : loc' = [loc EXCEPT !.out = Append(@, r)]
                 /\ UNCHANGED pc
  /\ UNCHANGED <<video, clusters, comments, jobs, queue, cur, apiKey, log>>
  /\ UNCHANGED funVars

\* Lines 176-188: the call of store_clustered_results.  Its body (delete the
\* item's clusters, insert the new rows, set both statuses to done) runs
\* only if the call binds.
Store ==
  /\ pc = "summarize"
  /\ Len(loc.out) = Len(loc.reps)
  /\ steps' = steps \cup {"store"}
  /\ IF StoreCallArgs > StoreMaxPositional
       THEN /\ Raise("store_clustered_results", StoreTypeError)
            /\ UNCHANGED <<clusters, video, jobs>>
       ELSE /\ clusters' = NewClusterRows(loc.out, cur)
            /\ video' = set_video_status(video, "done")
            /\ jobs' = set_job_status(jobs, cur, "done", None)
            /\ pc' = "summaries"
            /\ UNCHANGED loc
  /\ UNCHANGED <<comments, queue, cur, client, apiKey, log>>
  /\ UNCHANGED funVars

\* A variant of the handler that marks only the run record.
ExceptJobOnly ==
  /\ pc = "except"
  /\ steps' = steps \cup {"except"}
  /\ jobs' = set_job_status(jobs, cur, "failed", loc.exc)
  /\ video' = video
  /\ pc' = "raised"
  /\ UNCHANGED clusters
  /\ EndRun("raised")
  /\ UNCHANGED <<comments, queue, cur, client, apiKey>>
  /\ UNCHANGED funVars

\* Lines 217-221: the except clause marks both failed and re-raises.
Except ==
  /\ pc = "except"
  /\ steps' = steps \cup {"except"}
  /\ jobs' = set_job_status(jobs, cur, "failed", loc.exc)
  /\ video' = set_video_status(video, "failed")
  /\ pc' = "raised"
  /\ UNCHANGED clusters
  /\ EndRun("raised")
  /\ UNCHANGED <<comments, queue, cur, client, apiKey>>
  /\ UNCHANGED funVars

PipeNext ==
  \/ Analyze
  \/ Dequeue
  \/ Begin
  \/ FetchVideoInfo
  \/ VideoSummary
  \/ FetchComments
  \/ CacheCheck
  \/ UpdateHash
  \/ SaveComments
  \/ CountCheck
  \/ Preprocess
  \/ Embed
  \/ Cluster
  \/ SummarizeCluster
  \/ Store
  \/ Except

Init ==
  /\ PipeInit
  /\ sel = NoCall /\ rs = NoCall /\ pp = NoCall /\ cc = NoCall /\ api = 0

Next == PipeNext

Spec == Init /\ [][Next]_vars

(***************************************************************************)
(* backend/app/main.py: analyze as the worker sees it.  The request        *)
(* commits the item and enqueues the job (lines 61-89), and only then adds *)
(* and commits the run record (lines 91-99); the worker may take the job   *)
(* in between.  One request is handled at a time.                          *)
(***************************************************************************)

\* Lines 61-89: return the latest done job, or reset the item and enqueue.
AnalyzeEnqueue ==
  LET reuse ==
        /\ video.exists /\ video.status = "done"
        /\ ~(~Truthy(video.video_summary) /\ video.video_summary_status = "pending")
        /\ \E j \in DOMAIN jobs : jobs[j].status = "done"
      id == Len(jobs) + 1
  IN /\ api = 0
     /\ Len(jobs) < MaxJobs
     /\ IF reuse
          THEN UNCHANGED <<video, queue, api>>
          ELSE /\ video' = IF video.exists
                             THEN [video EXCEPT !.status = "queued"]
                             ELSE NewVideo
               /\ queue' = Append(queue, id)
               /\ api' = id
     /\ UNCHANGED <<clusters, comments, jobs, pc, cur, loc, client, apiKey, steps, log>>
     /\ UNCHANGED <<sel, rs, pp, cc>>

\* Lines 91-101: the run record of the enqueued job, with status queued.
AnalyzeInsert ==
  /\ api # 0
  /\ jobs' = Append(jobs, [status |-> "queued", error_message |-> None])
  /\ api' = 0
  /\ UNCHANGED <<video, clusters, comments, queue, pc, cur, loc, client, apiKey,
                 steps, log>>
  /\ UNCHANGED <<sel, rs, pp, cc>>

ANext ==
  \/ AnalyzeEnqueue
  \/ AnalyzeInsert
  \/ Dequeue
  \/ Begin
  \/ FetchVideoInfo
  \/ VideoSummary
  \/ FetchComments
  \/ CacheCheck
  \/ UpdateHash
  \/ SaveComments
  \/ CountCheck
  \/ Preprocess
  \/ Embed
  \/ Cluster
  \/ SummarizeCluster
  \/ Store
  \/ Except

SpecA == Init /\ [][ANext]_vars

(***************************************************************************)
(* worker/clustering.py: choose_k_by_silhouette, one call run step by step.  *)
(* KMeans and silhouette_score are library calls: the model draws what they  *)
(* return, or that they raise, from every outcome they can produce.          *)
(***************************************************************************)
MaxN == 5            \* rows of the embedding matrix
MaxKMinArg == 3      \* the k_min argument
MaxKMaxArg == 4      \* the k_max argument
MaxMinClusterSize == 2

\* Silhouette scores in hundredths.  A mean silhouette lies strictly above
\* -1, the value best_score starts from.
SCORE_FLOOR == -100
Scores == {-50, 50}

Max(a, b) == IF a > b THEN a ELSE b

\* k_min = max(2, k_min)
ClampKMin(k_min) == Max(2, k_min)

ClampKMaxNone(k_max, n) == k_max

\* k_max = min(k_max, n - 1)
ClampKMax(k_max, n) == Min(k_max, n - 1)

\* What fit_predict can label n rows with when asked for k clusters: labels
\* below `top` are in use, `used` of them non-empty, the smallest non-empty
\* one holding `least` rows.
LabelShapes(n, k) ==
  { sh \in [top : 1..k, used : 1..k, least : 1..n] :
      /\ sh.used <= sh.top
      /\ sh.used * sh.least <= n
      /\ (sh.used = 1 => sh.least = n /\ sh.top = 1) }

\* np.bincount(labels).min(): an unused label below the largest one counts 0.
BincountMin(sh) == IF sh.used < sh.top THEN 0 ELSE sh.least

\* silhouette_score raises unless 2 <= number of labels <= n - 1.
SilhouetteRaises(sh, n) == sh.used < 2 \/ sh.used > n - 1

RejectNever(min_size, min_cluster_size) == FALSE

\* if cluster_sizes.min() < min_cluster_size: continue
Rejects(min_size, min_cluster_size) == min_size < min_cluster_size

\* A call with n embeddings and the arguments k_min, k_max, min_cluster_size.
KCall(n, k_min, k_max, min_cluster_size) ==
  [pc |-> "start", n |-> n, k_min_arg |-> k_min, k_max_arg |-> k_max,
   min_cluster_size |-> min_cluster_size, k_min |-> k_min, k_max |-> k_max,
   k |-> 0, best_k |-> 0, best_score |-> SCORE_FLOOR, tried |-> <<>>,
   ret |-> 0]

\* The pipeline at rest while a function is called on its own.
PipeIdle ==
  /\ video = NoVideo /\ clusters = <<>> /\ comments = <<>>
  /\ jobs = <<>> /\ queue = <<>> /\ pc = "idle" /\ cur = 0
  /\ loc = LocInit /\ client = None /\ apiKey = FALSE
  /\ steps = {} /\ log = [j \in JobIds |-> NoRun]
  /\ api = 0

KInit ==
  /\ PipeIdle
  /\ \E n \in 0..MaxN, k_min \in 0..MaxKMinArg, k_max \in 0..MaxKMaxArg,
        min_cluster_size \in 1..MaxMinClusterSize :
       sel = KCall(n, k_min, k_max, min_cluster_size)
  /\ rs = NoCall /\ pp = NoCall /\ cc = NoCall

\* Lines 110-120: the bounds check and the early return.
KStart ==
  /\ sel.pc = "start"
  /\ LET lo == ClampKMin(sel.k_min_arg)
         hi == ClampKMax(sel.k_max_arg, sel.n)
     IN sel' = IF hi < lo
                 THEN [sel EXCEPT !.pc = "done", !.k_min = lo, !.k_max = hi,
                                  !.ret = lo]
                 ELSE [sel EXCEPT !.pc = "loop", !.k_min = lo, !.k_max = hi,
                                  !.k = lo, !.best_k = lo,
                                  !.best_score = SCORE_FLOOR]
  /\ UNCHANGED <<pipeVars, api, rs, pp, cc>>

\* What the loop body learnt about candidate sel.k.  status: "raised" when
\* KMeans raised, "rejected" for a cluster too small, "unscorable" when
\* silhouette_score raised, "scored" otherwise.
KNote(status, min_size, score) ==
  [k |-> sel.k, status |-> status, min_size |-> min_size, score |-> score]

\* A try block without a handler for the exception.
CatchesNothing(exc) == FALSE

\* Line 138: except Exception, for the errors KMeans and silhouette_score
\* raise.
Catches(exc) == exc \in {"ValueError", "Exception"}

\* score >= best_score: a later candidate with an equal score would win.
ImprovesOrTies(score, best_score) == score >= best_score

\* Line 134: if score > best_score.
Improves(score, best_score) == score > best_score

\* Lines 122-139: one candidate k.
KIter ==
  /\ sel.pc = "loop" /\ sel.k <= sel.k_max
  /\ \/ \* KMeans raises: except Exception: continue
        IF Catches("ValueError")
        THEN sel' = [sel EXCEPT !.k = @ + 1,
                       !.tried = Append(@, KNote("raised", 0, SCORE_FLOOR))]
        ELSE sel' = [sel EXCEPT !.pc = "propagated"]
     \/ \E sh \in LabelShapes(sel.n, sel.k), score \in Scores :
          LET min_size == BincountMin(sh)
              defined == ~SilhouetteRaises(sh, sel.n)
              \* the silhouette of this partition, whether or not it is asked for
              sil == IF defined THEN score ELSE SCORE_FLOOR
          IN IF Rejects(min_size, sel.min_cluster_size)
               THEN sel' = [sel EXCEPT !.k = @ + 1,
                              !.tried = Append(@, KNote("rejected", min_size, sil))]
               ELSE IF ~defined
                 THEN \* silhouette_score raises: except Exception: continue
                      IF Catches("ValueError")
                      THEN sel' = [sel EXCEPT !.k = @ + 1,
                             !.tried = Append(@, KNote("unscorable", min_size, sil))]
                      ELSE sel' = [sel EXCEPT !.pc = "propagated"]
                 ELSE sel' = [sel EXCEPT
                                !.k = @ + 1,
                                !.best_score =
                                  IF Improves(score, @) THEN score ELSE @,
                                !.best_k =
                                  IF Improves(score, sel.best_score) THEN sel.k ELSE @,
                                !.tried = Append(sel.tried, KNote("scored", min_size, sil))]
  /\ UNCHANGED <<pipeVars, api, rs, pp, cc>>

\* Lines 141-142: return best_k.
KReturn ==
  /\ sel.pc = "loop" /\ sel.k > sel.k_max
  /\ sel' = [sel EXCEPT !.pc = "done", !.ret = sel.best_k]
  /\ UNCHANGED <<pipeVars, api, rs, pp, cc>>

KNext == KStart \/ KIter \/ KReturn

SpecK == KInit /\ [][KNext]_vars


(***************************************************************************)
(* worker/clustering.py: select_representatives, one call run step by step. *)
(* Embeddings are integer vectors of squared norm NORM_SQ standing for unit *)
(* vectors; rows, clusters and rank positions count from 0 as in the code.  *)
(***************************************************************************)
MaxRows == 3         \* comments in a call
MaxTopK == 2         \* the top_k argument

NORM_SQ == 25
SIMILARITY_THRESHOLD_PCT == 95   \* similarity_threshold = 0.95
MIN_LENGTH == 20                 \* min_length = 20

Dot(a, b) == a[1] * b[1] + a[2] * b[2]

\* A comment as the function sees it: the length of its text and its embedding.
Rows ==
  { [len |-> 55, emb |-> <<5, 0>>], [len |-> 8,  emb |-> <<4, 3>>],
    [len |-> 55, emb |-> <<3, 4>>] }

ClusterLabels == {0, 1}

\* The centroids of the two clusters.
Centroids ==
  { (0 :> <<4, 3>>) @@ (1 :> <<1, 1>>), (0 :> <<1, 1>>) @@ (1 :> <<4, 3>>) }

\* 1000 * ln(max(len, 1) / min_length), for the lengths of Rows.
LogRatio(len, min_length) ==
  CASE len = 8  /\ min_length = 20 -> -916
    [] len = 55 /\ min_length = 20 -> 1012

\* np.clip(x, lo, hi)
Clip(x, lo, hi) == IF x < lo THEN lo ELSE IF x > hi THEN hi ELSE x

\* np.clip(1.0 + 0.1 * log(...), 0.5, 1.5), in units of 1/10000.
LengthBoost(len) == Clip(10000 + LogRatio(len, MIN_LENGTH), 5000, 15000)

\* adjusted_sims of row idx for cluster c.
AdjustedSim(call, idx, c) ==
  Dot(call.embeddings[idx], call.centroids[c]) * LengthBoost(call.texts[idx])

\* np.where(labels == c)[0]: the rows of cluster c in ascending order.
RECURSIVE WhereFrom(_, _, _, _)
WhereFrom(labels, n, c, i) ==
  IF i >= n THEN <<>>
  ELSE IF labels[i] = c THEN <<i>> \o WhereFrom(labels, n, c, i + 1)
  ELSE WhereFrom(labels, n, c, i + 1)

Where(call, c) == WhereFrom(call.labels, call.n, c, 0)

\* np.argsort(adjusted_sims): rank positions by ascending adjusted similarity.
ArgsortAscending(call, idxs, c) ==
  LET m == Len(idxs)
  IN { order \in [1..m -> 0..(m - 1)] :
         /\ \A a, b \in 1..m : a # b => order[a] # order[b]
         /\ \A a, b \in 1..m :
              a < b => AdjustedSim(call, idxs[order[a] + 1], c)
                         <= AdjustedSim(call, idxs[order[b] + 1], c) }

\* np.argsort(-adjusted_sims): rank positions by descending adjusted
\* similarity, equal values in any order.
ArgsortDescending(call, idxs, c) ==
  LET m == Len(idxs)
  IN { order \in [1..m -> 0..(m - 1)] :
         /\ \A a, b \in 1..m : a # b => order[a] # order[b]
         /\ \A a, b \in 1..m :
              a < b => AdjustedSim(call, idxs[order[a] + 1], c)
                         >= AdjustedSim(call, idxs[order[b] + 1], c) }

TopKExceeded(selected, top_k) == Len(selected) > top_k

\* if len(selected) >= top_k: break
TopKReached(selected, top_k) == Len(selected) >= top_k

IsDuplicateNever(candidate_emb, selected_embeddings) == FALSE

\* np.dot(candidate_emb, prev_emb) > similarity_threshold for some prev_emb
IsDuplicate(candidate_emb, selected_embeddings) ==
  \E i \in DOMAIN selected_embeddings :
    Dot(candidate_emb, selected_embeddings[i]) * 100
      > SIMILARITY_THRESHOLD_PCT * NORM_SQ

RCall(n, data, labels, centroids, top_k) ==
  [pc |-> "start", n |-> n,
   texts |-> [i \in 0..(n - 1) |-> data[i].len],
   embeddings |-> [i \in 0..(n - 1) |-> data[i].emb],
   labels |-> labels, centroids |-> centroids, top_k |-> top_k,
   k |-> 0, c |-> 0, idxs |-> <<>>, order |-> <<>>, pos |-> 0,
   selected |-> <<>>, selected_embeddings |-> <<>>, reps |-> <<>>]

RInit ==
  /\ PipeIdle
  /\ sel = NoCall /\ pp = NoCall /\ cc = NoCall
  /\ \E n \in 0..MaxRows :
       \E data \in [0..(n - 1) -> Rows], labels \in [0..(n - 1) -> ClusterLabels],
          centroids \in Centroids, top_k \in 0..MaxTopK :
         rs = RCall(n, data, labels, centroids, top_k)

\* Lines 214-215.
RStart ==
  /\ rs.pc = "start"
  /\ rs' = [rs EXCEPT !.pc = "cluster", !.k = Cardinality(DOMAIN rs.centroids),
                      !.c = 0, !.reps = <<>>]
  /\ UNCHANGED <<pipeVars, api, sel, pp, cc>>

\* Lines 217-238: the members of cluster c and the order they are visited in.
RCluster ==
  /\ rs.pc = "cluster" /\ rs.c < rs.k
  /\ LET idxs == Where(rs, rs.c)
     IN IF Len(idxs) = 0
          THEN rs' = [rs EXCEPT !.reps = Append(@, <<>>), !.c = @ + 1,
                                !.idxs = idxs]
          ELSE \E order \in ArgsortDescending(rs, idxs, rs.c) :
                 rs' = [rs EXCEPT !.pc = "visit", !.idxs = idxs,
                                  !.order = order, !.pos = 0,
                                  !.selected = <<>>,
                                  !.selected_embeddings = <<>>]
  /\ UNCHANGED <<pipeVars, api, sel, pp, cc>>

\* Lines 240-256: one member, taken unless it duplicates a representative.
RVisit ==
  /\ rs.pc = "visit" /\ rs.pos < Len(rs.order)
  /\ ~TopKReached(rs.selected, rs.top_k)
  /\ LET rank_idx == rs.order[rs.pos + 1]
         actual_idx == rs.idxs[rank_idx + 1]
         candidate_emb == rs.embeddings[actual_idx]
     IN rs' = IF IsDuplicate(candidate_emb, rs.selected_embeddings)
                THEN [rs EXCEPT !.pos = @ + 1]
                ELSE [rs EXCEPT !.pos = @ + 1,
                                !.selected = Append(@, actual_idx),
                                !.selected_embeddings = Append(@, candidate_emb)]
  /\ UNCHANGED <<pipeVars, api, sel, pp, cc>>

\* Lines 240-242 and 258: the walk ends, reps.append(selected).
RAppend ==
  /\ rs.pc = "visit"
  /\ rs.pos >= Len(rs.order) \/ TopKReached(rs.selected, rs.top_k)
  /\ rs' = [rs EXCEPT !.pc = "cluster", !.reps = Append(@, rs.selected),
                      !.c = @ + 1]
  /\ UNCHANGED <<pipeVars, api, sel, pp, cc>>

\* Line 260.
RReturn ==
  /\ rs.pc = "cluster" /\ rs.c >= rs.k
  /\ rs' = [rs EXCEPT !.pc = "done"]
  /\ UNCHANGED <<pipeVars, api, sel, pp, cc>>

RNext == RStart \/ RCluster \/ RVisit \/ RAppend \/ RReturn

SpecR == RInit /\ [][RNext]_vars


(***************************************************************************)
(* worker/clustering.py: preprocess_texts, called on every sequence of at  *)
(* most MaxTexts of the texts below.                                       *)
(***************************************************************************)
MaxTexts == 3

TextSymbols == <<"!","!","!","?","?","?","!","!">>

TextWs == <<"W","w","w","w","w","w","w","w">>

TextUrlOnly == <<"h","t","t","p","s",":","/","/","a",".","i","o">>

TextSeeUrl == <<"s","e","e"," ","h","t","t","p",":","/","/","a",".","i","o">>

TextWellLower == <<"w","e","l","l"," ","s","a","i","d","!","\n">>

\* Raw comment texts: long and short ones, ones that differ in case and in
\* surrounding white space only, noise of each pattern, and URLs with words.
RawTexts ==
  {TextGreat, TextOk, TextUrl, TextWell, TextWellLower,
   TextSymbols, TextWs, TextUrlOnly, TextSeeUrl}

PInit ==
  /\ PipeIdle
  /\ sel = NoCall /\ rs = NoCall /\ cc = NoCall
  /\ \E n \in 0..MaxTexts : \E texts \in [1..n -> RawTexts] :
       pp = [pc |-> "start", texts |-> texts, clean_texts |-> <<>>,
             original_indices |-> <<>>]

\* clean_texts, original_indices = preprocess_texts(texts)
PCall ==
  /\ pp.pc = "start"
  /\ LET result == preprocess_texts(pp.texts)
     IN pp' = [pp EXCEPT !.pc = "done", !.clean_texts = result[1],
                         !.original_indices = result[2]]
  /\ UNCHANGED <<pipeVars, api, sel, rs, cc>>

PNext == PCall

SpecP == PInit /\ [][PNext]_vars


(***************************************************************************)
(* worker/clustering.py: cluster_comments, the 2D coordinates. The         *)
(* projection PCA returns is an input: per axis, integers that sum to 0    *)
(* (PCA centres the data), the first axis carrying at least the variance   *)
(* of the second. A coordinate is an exact fraction num / den.             *)
(***************************************************************************)
MaxPoints == 3

MaxCoord == 2

Frac(num, den) == [num |-> num, den |-> den]

RECURSIVE SumSeq(_)
SumSeq(s) == IF s = <<>> THEN 0 ELSE s[1] + SumSeq(Tail(s))

Column(coords, dim) == [i \in DOMAIN coords |-> coords[i][dim]]

SumSquares(s) == SumSeq([i \in DOMAIN s |-> s[i] * s[i]])

\* One axis of pca.fit_transform(embeddings) for n points.
CentredColumns(n) ==
  {column \in [1..n -> (-MaxCoord)..MaxCoord] : SumSeq(column) = 0}

MinOf(s) == CHOOSE x \in Range(s) : \A y \in Range(s) : x <= y

MaxOf(s) == CHOOSE x \in Range(s) : \A y \in Range(s) : x >= y

\* 2 * (x - min_val) / (max_val - min_val), without the - 1.
RescaleNoShift(x, min_val, max_val) ==
  Frac(2 * (x.num - min_val), max_val - min_val)

\* 2 * (x - min_val) / (max_val - min_val) - 1
Rescale(x, min_val, max_val) ==
  Frac(2 * (x.num - min_val) - (max_val - min_val), max_val - min_val)

CInit ==
  /\ PipeIdle
  /\ sel = NoCall /\ rs = NoCall /\ pp = NoCall
  /\ \E n \in 0..MaxPoints :
       IF n >= 2
       THEN \E first, second \in CentredColumns(n) :
              /\ SumSquares(first) >= SumSquares(second)
              /\ cc = [pc |-> "start", n |-> n, coords |-> <<>>, dim |-> 0,
                       projected |-> [i \in 1..n |-> <<first[i], second[i]>>]]
       ELSE cc = [pc |-> "start", n |-> n, coords |-> <<>>, dim |-> 0,
                  projected |-> <<>>]

\* if n == 0: return the empty (0, 2) array; if n >= 2: coords =
\* pca.fit_transform(embeddings); else: coords = np.zeros((n, 2)).
CProject ==
  /\ cc.pc = "start"
  /\ IF cc.n = 0
     THEN cc' = [cc EXCEPT !.pc = "done"]
     ELSE IF cc.n >= 2
     THEN cc' = [cc EXCEPT !.pc = "axis",
                   !.coords = [i \in 1..cc.n |->
                                 [d \in 1..2 |-> Frac(cc.projected[i][d], 1)]]]
     ELSE cc' = [cc EXCEPT !.pc = "return",
                   !.coords = [i \in 1..cc.n |-> [d \in 1..2 |-> Frac(0, 1)]]]
  /\ UNCHANGED <<pipeVars, api, sel, rs, pp>>

\* for dim in range(2): one pass of the loop body.
CAxis ==
  /\ cc.pc = "axis"
  /\ LET d       == cc.dim + 1
         column  == [i \in 1..cc.n |-> cc.coords[i][d].num]
         min_val == MinOf(column)
         max_val == MaxOf(column)
         coords  == IF max_val > min_val
                    THEN [i \in 1..cc.n |->
                            [cc.coords[i] EXCEPT
                               ![d] = Rescale(cc.coords[i][d], min_val, max_val)]]
                    ELSE cc.coords
     IN cc' = [cc EXCEPT !.coords = coords, !.dim = cc.dim + 1,
                         !.pc = IF cc.dim + 1 < 2 THEN "axis" ELSE "return"]
  /\ UNCHANGED <<pipeVars, api, sel, rs, pp>>

\* return labels, coords, centroids
CReturn ==
  /\ cc.pc = "return"
  /\ cc' = [cc EXCEPT !.pc = "done"]
  /\ UNCHANGED <<pipeVars, api, sel, rs, pp>>

CNext == CProject \/ CAxis \/ CReturn

SpecC == CInit /\ [][CNext]_vars

(***************************************************************************)
(* Properties of process_video                                             *)
(***************************************************************************)

Terminal == {"returned", "raised"}

\* This step ends the current run.
RunEnds == pc \notin Terminal /\ pc' \in Terminal

\* The steps that recompute the analysis.
HeavySteps == {"preprocess", "embed", "cluster", "summarize", "store"}

\* The same comment ids, in any order.
SameIds(a, b) ==
  /\ Len(a) = Len(b)
  /\ \A x \in Range(a) \cup Range(b) :
       Cardinality({i \in 1..Len(a) : a[i] = x})
         = Cardinality({i \in 1..Len(b) : b[i] = x})

CollaboratorSites ==
  {"fetch_video_info", "summarize_video_content", "fetch_comments",
   "embed_comments", "cluster_comments", "summarize_cluster"}

\* C2: a run that is no cache hit, has at least 3 clean comments (it came to
\* the embedding) and in which no collaborator raised ends with both statuses
\* done and with the clusters it computed stored.
C2_FullRunEndsDone ==
  [][(RunEnds /\ "embed" \in steps /\ loc.site \notin CollaboratorSites) =>
       /\ pc' = "returned"
       /\ jobs'[cur].status = "done"
       /\ video'.status = "done"
       /\ clusters' # <<>>
       /\ \A i \in 1..Len(clusters') : clusters'[i].run = cur]_vars

C4_SecondRunHits ==
  [][(/\ pc = "cache_check" /\ pc' # "cache_check"
      /\ cur >= 2
      /\ log[cur - 1].fetched
      /\ log[cur - 1].complete
      /\ SameIds(log[cur - 1].ids, CommentIds(loc.comments_data))) =>
       /\ log'[cur].outcome = "hit"
       /\ pc' = "returned"
       /\ steps' \cap HeavySteps = {}]_vars

\* C4 witness: the second run is a cache hit after a first run that fetched
\* the same ids in another order and left a complete analysis.
C4_Witness ==
  /\ log[2].outcome = "hit"
  /\ log[1].outcome # "none"
  /\ log[1].fetched /\ log[1].complete
  /\ SameIds(log[1].ids, log[2].ids)
  /\ log[1].ids # log[2].ids

\* C5: when a run that is no cache hit and fetched other comment ids than the
\* previous run has ended, every cluster row of the item is one it stored.
C5_RerunReplacesClusters ==
  [][(/\ RunEnds
      /\ "update_hash" \in steps
      /\ cur >= 2
      /\ log[cur - 1].fetched
      /\ ~SameIds(log[cur - 1].ids, CommentIds(loc.comments_data))) =>
       \A i \in 1..Len(clusters') : clusters'[i].run = cur]_vars

NoteRaw == "Not enough comments"

NoteClean == "Not enough valid comments"

\* The run ends as done with the note, without embedding or clustering and
\* without a cluster row of its own.
ShortCircuit(note) ==
  /\ pc' = "returned"
  /\ jobs'[cur].status = "done"
  /\ video'.status = "done"
  /\ jobs'[cur].error_message = note
  /\ steps' \cap {"embed", "cluster", "summarize", "store"} = {}
  /\ clusters' = clusters
  /\ \A i \in 1..Len(clusters') : clusters'[i].run # cur

C7_SummarizeFailureAbsorbed ==
  ~(pc = "except" /\ loc.site = "summarize_cluster")

(***************************************************************************)
(* choose_k_by_silhouette                                                  *)
(***************************************************************************)
KDone == sel.pc = "done"

\* C8 as stated: the returned k lies in [2, min(k_max, n-1)] whenever that
\* range is non-empty, and is the k_min argument otherwise.
C8_ReturnsWithinTwoToMax ==
  KDone =>
    LET hi == IF sel.k_max_arg < sel.n - 1 THEN sel.k_max_arg ELSE sel.n - 1
    IN IF 2 <= hi THEN 2 <= sel.ret /\ sel.ret <= hi
                  ELSE sel.ret = sel.k_min_arg

\* C8 amended: with lo = max(2, k_min) and hi = min(k_max, n-1), the returned
\* k lies in [lo, hi] whenever that range is non-empty, and is lo otherwise.
C8_ReturnsWithinClampedRange ==
  KDone =>
    LET lo == IF sel.k_min_arg > 2 THEN sel.k_min_arg ELSE 2
        hi == IF sel.k_max_arg < sel.n - 1 THEN sel.k_max_arg ELSE sel.n - 1
    IN IF lo <= hi THEN lo <= sel.ret /\ sel.ret <= hi
                   ELSE sel.ret = lo

\* A search over several candidates that returned n - 1, below the k_max
\* argument and above the lower end of the range.
C8_Witness ==
  /\ KDone /\ Len(sel.tried) >= 2
  /\ sel.k_max_arg > sel.n - 1 /\ sel.ret = sel.n - 1
  /\ sel.ret > sel.k_min_arg /\ sel.ret > 2

\* The partition the search saw for candidate k had a cluster that was too small.
TooSmall(note) ==
  note.status # "raised" /\ note.min_size < sel.min_cluster_size

Survived(note) ==
  note.status = "scored" /\ note.min_size >= sel.min_cluster_size

\* C9 as stated: the returned k is never one whose partition has a smallest
\* cluster with fewer than min_cluster_size members.
C9_NeverReturnsTooSmall ==
  KDone => \A i \in DOMAIN sel.tried :
             sel.tried[i].k = sel.ret => ~TooSmall(sel.tried[i])

\* C9 amended: a k whose partition has a cluster below min_cluster_size is
\* returned only as the fall-back max(2, k_min) when no candidate survived
\* rejection and scoring; whenever some candidate survived, the returned k
\* is not a too-small one, whatever the silhouette of the too-small ones.
C9_TooSmallOnlyAsFallback ==
  KDone => \A i \in DOMAIN sel.tried :
             (sel.tried[i].k = sel.ret /\ TooSmall(sel.tried[i]))
               => /\ sel.ret = (IF sel.k_min_arg > 2 THEN sel.k_min_arg ELSE 2)
                  /\ \A j \in DOMAIN sel.tried : ~Survived(sel.tried[j])

\* A too-small candidate had a higher silhouette than the surviving
\* candidate that was returned.
C9_Witness ==
  /\ KDone
  /\ \E i, j \in DOMAIN sel.tried :
       /\ TooSmall(sel.tried[i]) /\ Survived(sel.tried[j])
       /\ sel.tried[j].k = sel.ret
       /\ sel.tried[i].score > sel.tried[j].score

(***************************************************************************)
(* select_representatives                                                  *)
(***************************************************************************)
RDone == rs.pc = "done"

Members(c) == {i \in 0..(rs.n - 1) : rs.labels[i] = c}

\* C10: for every cluster the returned list has at most top_k entries, no
\* entry twice and only rows assigned to that cluster, and an empty cluster
\* gets an empty list.
C10_RepresentativesBounded ==
  RDone =>
    /\ Len(rs.reps) = Cardinality(ClusterLabels)
    /\ \A c \in ClusterLabels :
         LET list == rs.reps[c + 1]
         IN /\ Len(list) <= rs.top_k
            /\ \A a, b \in DOMAIN list : a # b => list[a] # list[b]
            /\ \A a \in DOMAIN list : list[a] \in Members(c)
            /\ (Members(c) = {} => list = <<>>)

\* One cluster is empty, the other has more members than top_k, one of them
\* skipped as a duplicate, and its list is full.
C10_Witness ==
  /\ RDone /\ rs.top_k = 2
  /\ \E c, d \in ClusterLabels :
       /\ Members(d) = {} /\ rs.reps[d + 1] = <<>>
       /\ Cardinality(Members(c)) = 3 /\ Len(rs.reps[c + 1]) = 2
       /\ \E i \in Members(c) :
            /\ \A a \in DOMAIN rs.reps[c + 1] : rs.reps[c + 1][a] # i
            /\ Dot(rs.embeddings[i], rs.embeddings[rs.reps[c + 1][1]]) * 100
                 > SIMILARITY_THRESHOLD_PCT * NORM_SQ

\* Two rows whose embeddings are more similar than similarity_threshold.
TooSimilar(i, j) ==
  Dot(rs.embeddings[i], rs.embeddings[j]) * 100
    > SIMILARITY_THRESHOLD_PCT * NORM_SQ

\* C11: in every returned list no two representatives have embeddings whose
\* dot product exceeds similarity_threshold.
C11_RepresentativesDissimilar ==
  RDone =>
    \A c \in ClusterLabels :
      \A a, b \in DOMAIN rs.reps[c + 1] :
        a # b => ~TooSimilar(rs.reps[c + 1][a], rs.reps[c + 1][b])

\* A member that ranks above the second representative was passed over
\* because it is too similar to the first one.
C11_Witness ==
  /\ RDone
  /\ \E c \in ClusterLabels :
       /\ Len(rs.reps[c + 1]) = 2
       /\ \E i \in Members(c) :
            /\ i # rs.reps[c + 1][1] /\ i # rs.reps[c + 1][2]
            /\ TooSimilar(i, rs.reps[c + 1][1])
            /\ AdjustedSim(rs, i, c) > AdjustedSim(rs, rs.reps[c + 1][2], c)

\* The orders in which the members of cluster c can be visited: every member
\* once, by descending adjusted similarity.
DescendingVisits(c) ==
  LET m == Cardinality(Members(c))
  IN {visit \in [1..m -> Members(c)] :
        /\ \A a, b \in 1..m : a # b => visit[a] # visit[b]
        /\ \A a, b \in 1..m :
             a < b => AdjustedSim(rs, visit[a], c) >= AdjustedSim(rs, visit[b], c)}

\* The greedy reference: walk visit from position pos on, accept a member iff
\* it is not too similar to any member accepted so far, stop at top_k.
RECURSIVE GreedyFrom(_, _, _)
GreedyFrom(visit, pos, accepted) ==
  IF pos > Len(visit) \/ Len(accepted) >= rs.top_k THEN accepted
  ELSE IF \A a \in DOMAIN accepted : ~TooSimilar(visit[pos], accepted[a])
    THEN GreedyFrom(visit, pos + 1, Append(accepted, visit[pos]))
    ELSE GreedyFrom(visit, pos + 1, accepted)

\* C24: for each non-empty cluster the returned list is what the greedy
\* reference gives on some descending order of the members, and when
\* top_k >= 1 its first entry is a member of highest adjusted similarity.
C24_EqualsGreedyReference ==
  RDone =>
    \A c \in ClusterLabels :
      Members(c) # {} =>
        /\ \E visit \in DescendingVisits(c) :
             rs.reps[c + 1] = GreedyFrom(visit, 1, <<>>)
        /\ rs.top_k >= 1 =>
             /\ Len(rs.reps[c + 1]) >= 1
             /\ \A i \in Members(c) :
                  AdjustedSim(rs, rs.reps[c + 1][1], c) >= AdjustedSim(rs, i, c)

\* A cluster of three members with three different scores: the best is the
\* first representative, the second best was rejected as its near-duplicate
\* and not taken up again, and the third fills the list of top_k = 2.
C24_Witness ==
  /\ RDone
  /\ rs.top_k = 2
  /\ \E c \in ClusterLabels :
       /\ Cardinality(Members(c)) = 3
       /\ Len(rs.reps[c + 1]) = 2
       /\ \E i \in Members(c) :
            /\ AdjustedSim(rs, rs.reps[c + 1][1], c) > AdjustedSim(rs, i, c)
            /\ AdjustedSim(rs, i, c) > AdjustedSim(rs, rs.reps[c + 1][2], c)
            /\ TooSimilar(i, rs.reps[c + 1][1])
            /\ ~TooSimilar(i, rs.reps[c + 1][2])


\* The candidates that survived the rejection and were scored.
Scored == {i \in DOMAIN sel.tried : sel.tried[i].status = "scored"}

\* The scored candidates with the maximum silhouette score.
BestScored == {i \in Scored : \A j \in Scored : sel.tried[j].score <= sel.tried[i].score}

ReturnsFirstBest ==
  \E i \in BestScored :
    /\ sel.ret = sel.tried[i].k
    /\ \A j \in BestScored : sel.tried[i].k <= sel.tried[j].k

\* C15: when a candidate survives the rejection and is scored, the call
\* returns the smallest k among the scored candidates of maximum score; when
\* none survives it returns the k_min it was called with.
C15_FirstBestOrKMinArgument ==
  KDone => IF Scored # {} THEN ReturnsFirstBest ELSE sel.ret = sel.k_min_arg

\* C15, amended: as above, but when no candidate survives the call returns
\* max(2, k_min).
C15_FirstBestOrClampedKMin ==
  KDone => IF Scored # {} THEN ReturnsFirstBest ELSE sel.ret = Max(2, sel.k_min_arg)

\* A call that scored two candidates equally and best, and returned the
\* smaller, which is not the first candidate of the search.
C15_Witness ==
  /\ KDone
  /\ \E i, j \in BestScored : i < j /\ sel.ret = sel.tried[i].k
  /\ sel.ret # sel.k_min

\* The candidates whose partitioning or scoring raised.
Raised == {i \in DOMAIN sel.tried : sel.tried[i].status \in {"raised", "unscorable"}}

\* C16: an exception raised while partitioning or scoring a candidate is
\* never propagated; the search goes on through every remaining candidate of
\* the range, the call returns a k, and a candidate that raised is returned
\* only as the fallback when no candidate was scored.
C16_ExceptionSkipsCandidate ==
  /\ sel.pc # "propagated"
  /\ KDone =>
       /\ sel.ret >= 2
       /\ Len(sel.tried) = Max(0, sel.k_max - sel.k_min + 1)
       /\ \A i \in DOMAIN sel.tried : sel.tried[i].k = sel.k_min + i - 1
       /\ Scored # {} => \E i \in Scored : sel.ret = sel.tried[i].k

\* A call in which a candidate raised, a later candidate was scored, and the
\* later one was returned.
C16_Witness ==
  /\ KDone
  /\ \E i \in Raised : \E j \in Scored : i < j /\ sel.ret = sel.tried[j].k
  /\ \E i \in DOMAIN sel.tried : sel.tried[i].status = "raised"
  /\ \E i \in DOMAIN sel.tried : sel.tried[i].status = "unscorable"

\* The moves of a status within a run: queued -> processing -> done | failed.
RunMoves ==
  {<<"queued", "processing">>, <<"processing", "done">>, <<"processing", "failed">>}

\* A step of the run of process_video that is under way.
RunStep == pc # "idle" /\ pc' # pc /\ cur' = cur

\* C17: every write of a run moves the status of its run record and of the
\* item along queued -> processing, processing -> done or processing ->
\* failed, so nothing is written over done or failed.
C17_StatusMovesForward ==
  [][RunStep =>
       /\ jobs'[cur].status # jobs[cur].status
            => <<jobs[cur].status, jobs'[cur].status>> \in RunMoves
       /\ video'.status # video.status
            => <<video.status, video'.status>> \in RunMoves]_vars

\* The comment ids the cluster rows stored by run r were computed from; the
\* rows present at the start are those of FeedOfStoredAnalysis.
ClusterSource(r) ==
  IF r = 0 THEN CommentIds(FeedOfStoredAnalysis) ELSE log[r].ids

\* C18: whenever a run ends as a cache hit, every stored cluster row was
\* computed from a comment set whose hash is the item's stored hash.
C18_HitServesMatchingClusters ==
  [][(pc = "cache_check" /\ pc' = "returned") =>
       \A i \in DOMAIN clusters' :
         calc_comments_hash(ClusterSource(clusters'[i].run)) = video'.hash_version]_vars

\* The stored analysis results of the item as a cache hit should leave them:
\* the cluster rows, the comment rows, the hash and the summary fields.
StoredAnalysis(v, cl, cm) ==
  <<cl, cm, v.hash_version, v.overall_summary, v.issue_outline, v.video_summary>>

\* C19: the step that ends a run as a cache hit writes the two statuses and
\* nothing else: cluster rows, comment rows, the stored hash and the item's
\* summary fields are as the steps of the run before it found them.
C19_HitChangesStatusesOnly ==
  [][(RunStep /\ pc' # "except" /\ "cache_check" \notin steps
        /\ (pc = "cache_check" => pc' = "returned")) =>
       StoredAnalysis(video', clusters', comments')
         = StoredAnalysis(video, clusters, comments)]_vars

\* The hash of the comment ids the run under way has fetched.
FetchedHash == calc_comments_hash(CommentIds(loc.comments_data))

\* The stored hash changes in no step but the one after a cache miss, which
\* comes once in a run, before any heavy step, and writes the hash of the
\* fetched comment ids; a run that raises leaves it as it is.
HashWrittenOnceAfterMiss ==
  /\ (RunStep /\ pc = "cache_check" /\ pc' # "returned") => pc' = "update_hash"
  /\ IF RunStep /\ pc = "update_hash"
       THEN /\ video'.hash_version = FetchedHash
            /\ "cache_check" \in steps /\ "update_hash" \notin steps
            /\ steps \cap HeavySteps = {}
       ELSE video'.hash_version = video.hash_version
  /\ steps' \cap HeavySteps # {} => "update_hash" \in steps'

\* The run before this one raised before it reached the cache check.
PreviousRunFailedEarly ==
  cur >= 2 /\ log[cur - 1].outcome = "raised" /\ ~log[cur - 1].fetched

WithSummaries(v) ==
  [v EXCEPT !.overall_summary = "overall", !.issue_outline = "outline"]

\* C21: when every cluster of a run was summarized with a non-empty label,
\* summary and stance, the step that stores the results does not raise and
\* leaves cluster rows that, with a non-empty overall summary and issue
\* outline on the item, satisfy has_complete_analysis.
C21_FullRunLeavesCompleteAnalysis ==
  [][(/\ RunStep /\ pc = "summarize" /\ pc' # "summarize"
      /\ Len(loc.out) = Len(loc.reps)
      /\ \A i \in DOMAIN loc.out : \A f \in 1..3 : Truthy(loc.out[i][f])) =>
       /\ pc' # "except"
       /\ \A i \in DOMAIN clusters' : clusters'[i].run = cur
       /\ has_complete_analysis(clusters', WithSummaries(video'))]_vars

\* The run of job j has ended.
RunOver(j) == log[j].outcome # "none"

\* C22: under every interleaving of analyze with the worker, once the run of
\* a job has ended and the request that created it has returned, the run
\* record is done or failed, and that of the latest job equals the item's
\* status.
C22_RunRecordSettled ==
  api = 0 =>
    \A j \in DOMAIN jobs :
      RunOver(j) =>
        /\ jobs[j].status \in {"done", "failed"}
        /\ (j = Len(jobs) /\ queue = <<>>) => jobs[j].status = video.status

\* The jobs of the item whose run is pending or under way.
PendingJobs == {j \in DOMAIN jobs : jobs[j].status \in {"queued", "processing"}}

\* C23: at most one run of the item is pending or executing at any time:
\* analyze never enqueues a job while an earlier job of the item is still
\* queued or processing.
C23_AtMostOnePendingRun ==
  /\ Cardinality(PendingJobs) <= 1
  /\ Len(queue) <= 1

(***************************************************************************)
(* Properties of preprocess_texts                                          *)
(***************************************************************************)
PDone == pp.pc = "done"

\* The trimmed, lower-cased form of the input text at 0-based index i.
Normalized(i) == Lower(Strip(pp.texts[i + 1]))

\* C12: preprocess_texts returns clean_texts and original_indices of equal
\* length, original_indices strictly increasing, clean_texts[j] the trimmed
\* input text at original_indices[j]; every returned text has at least 8
\* characters, no two returned texts are equal after lower-casing, and a kept
\* text is the first input occurrence of its lower-cased form.
C12_PreprocessResult ==
  PDone =>
    LET clean == pp.clean_texts
        idx   == pp.original_indices
    IN /\ Len(clean) = Len(idx)
       /\ \A j \in DOMAIN idx :
            /\ idx[j] \in 0..(Len(pp.texts) - 1)
            /\ clean[j] = Strip(pp.texts[idx[j] + 1])
            /\ Len(clean[j]) >= MIN_TEXT_LENGTH
            /\ \A i \in 0..(idx[j] - 1) : Normalized(i) # Lower(clean[j])
       /\ \A a, b \in DOMAIN idx :
            a < b => idx[a] < idx[b] /\ Lower(clean[a]) # Lower(clean[b])

\* A call whose input holds two texts equal after trimming and lower-casing,
\* the first of them padded: the first is kept, trimmed, the second dropped.
C12_Witness ==
  /\ PDone
  /\ Len(pp.clean_texts) >= 2
  /\ \E i, j \in 0..(Len(pp.texts) - 1) :
       /\ i < j
       /\ Normalized(i) = Normalized(j)
       /\ Strip(pp.texts[i + 1]) # pp.texts[i + 1]
       /\ i \in Range(pp.original_indices)
       /\ j \notin Range(pp.original_indices)

\* The entire text is noise: a URL with nothing after it, symbols only, or
\* one noise word.
WholeTextIsNoise(text) ==
  /\ NoiseMatch(text)
  /\ (StartsWith(Lower(text), HttpPrefix) \/ StartsWith(Lower(text), HttpsPrefix))
       => \A i \in DOMAIN text : ~IsSpace(text[i])

\* C13: a text is dropped under the noise rule only when the entire trimmed
\* text matches a noise pattern; a first occurrence of at least 8 characters
\* that merely begins with or contains a noise pattern (a URL followed by
\* other words) is kept.
C13_DropsWholeNoiseOnly ==
  PDone =>
    \A i \in 0..(Len(pp.texts) - 1) :
      LET text == Strip(pp.texts[i + 1])
      IN (/\ Len(text) >= MIN_TEXT_LENGTH
          /\ ~WholeTextIsNoise(text)
          /\ \A h \in 0..(i - 1) : Normalized(h) # Normalized(i))
         => i \in Range(pp.original_indices)

(***************************************************************************)
(* Properties of cluster_comments                                          *)
(***************************************************************************)
CDone == cc.pc = "done"

AllEqual(s) == \A i, j \in DOMAIN s : s[i] = s[j]

\* C14: the returned coordinates are all zero when n < 2; when n >= 2 an axis
\* whose projected values are not all equal has minimum -1, maximum 1 and
\* every value in [-1, 1], and an axis whose projected values are all equal
\* is returned as projected; no denominator is zero.
C14_CoordsRescaled ==
  CDone =>
    /\ Len(cc.coords) = cc.n
    /\ \A i \in DOMAIN cc.coords : \A d \in 1..2 : cc.coords[i][d].den > 0
    /\ cc.n < 2 => \A i \in DOMAIN cc.coords : \A d \in 1..2 :
                     cc.coords[i][d].num = 0
    /\ cc.n >= 2 =>
         \A d \in 1..2 :
           LET raw == Column(cc.projected, d)
               out == Column(cc.coords, d)
           IN IF AllEqual(raw)
              THEN \A i \in DOMAIN out : out[i] = Frac(raw[i], 1)
              ELSE /\ \E i \in DOMAIN out : out[i].num = -out[i].den
                   /\ \E i \in DOMAIN out : out[i].num = out[i].den
                   /\ \A i \in DOMAIN out :
                        -out[i].den <= out[i].num /\ out[i].num <= out[i].den

\* A returned projection whose first axis was rescaled, with a point strictly
\* between the extremes, and whose second axis was constant and left alone.
C14_Witness ==
  /\ CDone
  /\ cc.n >= 2
  /\ ~AllEqual(Column(cc.projected, 1))
  /\ AllEqual(Column(cc.projected, 2))
  /\ \E i \in DOMAIN cc.coords :
       /\ -cc.coords[i][1].den < cc.coords[i][1].num
       /\ cc.coords[i][1].num < cc.coords[i][1].den
       /\ cc.coords[i][1].den > 1


====
